---- MODULE Spec2Model ----
(***************************************************************************)
(* Code issuance and redemption of wallet-pass-server.                     *)
(*                                                                         *)
(* The state is the ConfirmationCode table, the HTTP requests in flight    *)
(* (one record per request, with the position of its handler between two   *)
(* awaits), the wall clock, the process environment and the mail that left *)
(* the server.  Every action is the piece of a handler that runs between   *)
(* two store round trips: requests interleave only at an await.            *)
(*                                                                         *)
(* Strings the code inspects character by character (codes, emails, the    *)
(* holder name) are sequences of one-character strings; the empty sequence *)
(* stands for every falsy value of the source (undefined, null, '').       *)
(***************************************************************************)
EXTENDS Integers, Sequences, FiniteSets, TLC

VARIABLES store, reqs, now, env, outbox, calc, discountCodes

vars == <<store, reqs, now, env, outbox, calc, discountCodes>>

(***************************************************************************)
(* Bounds of the model.                                                    *)
(***************************************************************************)
MaxReq == 2
MaxTime == 1

(***************************************************************************)
(* Characters and strings.                                                 *)
(***************************************************************************)
Lower == <<"a","b","c","d","e","f","g","h","i","j","k","l","m",
           "n","o","p","q","r","s","t","u","v","w","x","y","z">>
Upper == <<"A","B","C","D","E","F","G","H","I","J","K","L","M",
           "N","O","P","Q","R","S","T","U","V","W","X","Y","Z">>
Digits == {"0","1","2","3","4","5","6","7","8","9"}

Range(s) == {s[i] : i \in DOMAIN s}

toUpperChar(c) ==
    IF \E i \in DOMAIN Lower : Lower[i] = c
    THEN Upper[CHOOSE i \in DOMAIN Lower : Lower[i] = c]
    ELSE c

toLowerChar(c) ==
    IF \E i \in DOMAIN Upper : Upper[i] = c
    THEN Lower[CHOOSE i \in DOMAIN Upper : Upper[i] = c]
    ELSE c

toUpperCase(s) == [i \in DOMAIN s |-> toUpperChar(s[i])]
toLowerCase(s) == [i \in DOMAIN s |-> toLowerChar(s[i])]

IsAlnumUpper(c) == c \in Range(Upper) \cup Digits
\* (variant: the ambiguous set without L)
IsAmbiguousNoL(c) == c \in {"O", "0", "I", "1"}

IsAmbiguous(c) == c \in {"O", "0", "I", "1", "L"}
IsSpace(c) == c = " "

RECURSIVE trimStart(_)
trimStart(s) ==
    IF s # << >> /\ IsSpace(Head(s)) THEN trimStart(Tail(s)) ELSE s

RECURSIVE trimEnd(_)
trimEnd(s) ==
    IF s # << >> /\ IsSpace(s[Len(s)])
    THEN trimEnd(SubSeq(s, 1, Len(s) - 1))
    ELSE s

trim(s) == trimEnd(trimStart(s))

slice(s, n) == IF Len(s) <= n THEN s ELSE SubSeq(s, 1, n)

(***************************************************************************)
(* lib/code.ts                                                             *)
(***************************************************************************)
ALPHABET == <<"A","B","C","D","E","F","G","H","J","K","M","N","P","Q","R",
              "S","T","V","W","X","Y","Z","2","3","4","5","6","7","8","9">>

makeCode(bytes) ==
    toUpperCase([i \in DOMAIN bytes |-> ALPHABET[(bytes[i] % Len(ALPHABET)) + 1]])

\* discount-routes: generateCode(length = 12)
DiscountChars == <<"A","B","C","D","E","F","G","H","J","K","L","M","N","P","Q","R",
                   "S","T","U","V","W","X","Y","Z","2","3","4","5","6","7","8","9">>

DiscountCodeLen == 12

generateCode(bytes) ==
    [i \in DOMAIN bytes |-> DiscountChars[(bytes[i] % Len(DiscountChars)) + 1]]

sanitizeCode(input) ==
    LET up == SelectSeq(toUpperCase(input), IsAlnumUpper)
    IN  SelectSeq(up, LAMBDA c : ~IsAmbiguous(c))

(***************************************************************************)
(* crypto.randomBytes(len): a sample of the byte strings it can return.    *)
(* Starts 0 and 30 give different bytes and the same code (byte % 30).     *)
(***************************************************************************)
ByteStarts == {0, 30, 7}
RandomBytes(len) == {[i \in 1..len |-> (b + i - 1) % 256] : b \in ByteStarts}

PurchaseCodeLen == 6

(***************************************************************************)
(* The ConfirmationCode table.  A row's id is its index in store; rows are *)
(* never deleted.  Columns no handler reads (stripeSessionId, metadata,    *)
(* createdAt) are left out.                                                *)
(***************************************************************************)
Null == "null"
NoTime == -1

NoRow == [id |-> 0, code |-> << >>, status |-> "UNUSED", customerEmail |-> << >>,
          stripePaymentId |-> Null, expiresAt |-> NoTime, usedAt |-> NoTime,
          redeemAuditIp |-> Null, redeemAuditUa |-> Null]

NewRow(s, code, email, pi, expires) ==
    [id |-> Len(s) + 1, code |-> code, status |-> "UNUSED", customerEmail |-> email,
     stripePaymentId |-> pi, expiresAt |-> expires, usedAt |-> NoTime,
     redeemAuditIp |-> Null, redeemAuditUa |-> Null]

\* (variant: the table without the unique index on code)
CodeTakenNoIndex(s, code) == FALSE

\* ConfirmationCode_code_key
CodeTaken(s, code) == \E i \in DOMAIN s : s[i].code = code

\* (variant: the table without the unique index on stripePaymentId)
PaymentTakenNoIndex(s, pi) == FALSE

\* ConfirmationCode_stripePaymentId_key: unique where not NULL
PaymentTaken(s, pi) == pi # Null /\ \E i \in DOMAIN s : s[i].stripePaymentId = pi

\* prisma.confirmationCode.create fails with P2002 on either unique index
UniqueViolation(s, code, pi) == CodeTaken(s, code) \/ PaymentTaken(s, pi)

create(s, code, email, pi) ==
    IF UniqueViolation(s, code, pi) THEN s
    ELSE Append(s, NewRow(s, code, email, pi, NoTime))

findUnique(s, code) ==
    IF CodeTaken(s, code)
    THEN s[CHOOSE i \in DOMAIN s : s[i].code = code]
    ELSE NoRow

\* (variant: a lookup that ignores the payment reference)
findFirstAnyRow(s, pi) == IF s = << >> THEN NoRow ELSE s[1]

findFirst(s, pi) ==
    LET hits == {i \in DOMAIN s : s[i].stripePaymentId = pi}
    IN  IF hits = {} THEN NoRow
        ELSE s[CHOOSE i \in hits : \A j \in hits : i <= j]

\* (variant: the where clause without the status filter)
VoidMatchesAnyStatus(s, pi) == {i \in DOMAIN s : s[i].stripePaymentId = pi}

\* updateMany({ where: { stripePaymentId, status: 'UNUSED' }, data: { status: 'VOID' } })
VoidMatches(s, pi) ==
    {i \in DOMAIN s : s[i].stripePaymentId = pi /\ s[i].status = "UNUSED"}

\* (variant: the update written with the wrong status filter)
updateManyUsedFilter(s, pi) ==
    [i \in DOMAIN s |->
        IF s[i].stripePaymentId = pi /\ s[i].status = "USED"
        THEN [s[i] EXCEPT !.status = "VOID"] ELSE s[i]]

updateMany(s, pi) ==
    [i \in DOMAIN s |->
        IF i \in VoidMatches(s, pi) THEN [s[i] EXCEPT !.status = "VOID"] ELSE s[i]]

\* update({ where: { id }, data: { status: 'USED', usedAt, redeemAuditIp, redeemAuditUa } })
update(s, id, usedAt, ip, ua) ==
    [s EXCEPT ![id] = [@ EXCEPT !.status = "USED", !.usedAt = usedAt,
                                !.redeemAuditIp = ip, !.redeemAuditUa = ua]]

(***************************************************************************)
(* lib/token.ts.  The jti (16 random bytes) carries no behaviour and is    *)
(* left out of the payload.                                                *)
(***************************************************************************)
MsPerSecond == 1000
TokenTtl == 60
NameCap == 64

NoToken == [typ |-> "none", exp |-> 0, name |-> << >>]

createDownloadToken(ttl, name) ==
    [typ |-> "pass-download", exp |-> (now \div MsPerSecond) + ttl,
     name |-> slice(name, NameCap)]

\* what a caller hands to GET /api/pass/download: the string's form, whether its
\* signature was made with JWT_SECRET, and the payload it carries
Signed(payload) == [form |-> "jwt", sig |-> "good", payload |-> payload]

\* (variants: an expiry test that still accepts at the second exp; a payload whose
\* purpose tag is not looked at)
jwtVerifyInclusive(p, t) ==
    IF p.form # "jwt" THEN "Malformed"
    ELSE IF p.sig # "good" THEN "BadSignature"
    ELSE IF t \div MsPerSecond > p.payload.exp THEN "Expired"
    ELSE "ok"

\* jsonwebtoken's verify: decode, check the signature, then exp against the clock in
\* whole seconds
jwtVerify(p, t) ==
    IF p.form # "jwt" THEN "Malformed"
    ELSE IF p.sig # "good" THEN "BadSignature"
    ELSE IF t \div MsPerSecond >= p.payload.exp THEN "Expired"
    ELSE "ok"

\* the reason verifyDownloadToken throws at clock t, or "ok"
verifyDownloadToken(p, t) ==
    IF ~env.JWT_SECRET THEN "NoSecret"
    ELSE IF jwtVerify(p, t) # "ok" THEN jwtVerify(p, t)
    ELSE IF p.payload.typ # "pass-download" THEN "WrongType"
    ELSE "ok"

(***************************************************************************)
(* Request helpers of the server.                                          *)
(***************************************************************************)
clientIp(client) == IF client.xff # << >> THEN Head(client.xff) ELSE client.remote
userAgent(client) == client.ua

\* (variants: a status check that rejects only VOID; an email comparison without
\* toLowerCase)
NotUnusedVoidOnly(row) == row.status = "VOID"
EmailDiffersCaseSensitive(email, row) ==
    email # << >> /\ row.customerEmail # << >> /\ email # row.customerEmail

\* the validation chain of POST /api/redeem, on the row read by findUnique
NotUnused(row) == row.status # "UNUSED"
IsExpired(row, t) == row.expiresAt # NoTime /\ row.expiresAt < t
EmailDiffers(email, row) ==
    /\ email # << >>
    /\ row.customerEmail # << >>
    /\ toLowerCase(email) # toLowerCase(row.customerEmail)

\* (variant: the expiry check placed in front of the status check)
redeemVerdictExpiryFirst(row, email, t) ==
    IF row = NoRow THEN "NotFound"
    ELSE IF IsExpired(row, t) THEN "Expired"
    ELSE IF NotUnused(row) THEN "AlreadyConsumedOrVoid"
    ELSE IF EmailDiffers(email, row) THEN "EmailMismatch"
    ELSE "pass"

redeemVerdict(row, email, t) ==
    IF row = NoRow THEN "NotFound"
    ELSE IF NotUnused(row) THEN "AlreadyConsumedOrVoid"
    ELSE IF IsExpired(row, t) THEN "Expired"
    ELSE IF EmailDiffers(email, row) THEN "EmailMismatch"
    ELSE "pass"

\* (variant: a webhook catch block that takes the last row back)
webhookCatchRollback(s) == IF s = << >> THEN s ELSE SubSeq(s, 1, Len(s) - 1)

\* the catch block of the webhook logs and answers 500: the table is left as it is
webhookCatch(s) == s

\* (variant: guards that do not look at the configuration)
webhookGateNoConfigCheck(sig) ==
    IF sig = "missing" THEN "MissingSignature"
    ELSE IF sig = "invalid" THEN "BadSignature"
    ELSE "ok"

\* the guards in front of the webhook's event handling
webhookGate(sig) ==
    IF ~env.STRIPE THEN "NotConfigured"
    ELSE IF sig = "missing" THEN "MissingSignature"
    ELSE IF sig = "invalid" THEN "BadSignature"
    ELSE "ok"

(***************************************************************************)
(* The table DiscountCode and the helpers of the discount routes.          *)
(***************************************************************************)
NewDiscount(d, code, sid, email) ==
    [id |-> Len(d) + 1, code |-> code, stripeSessionId |-> sid, email |-> email,
     status |-> "UNUSED", usedAt |-> NoTime]

\* DiscountCode_code_key
DiscountCodeTaken(d, code) == \E k \in DOMAIN d : d[k].code = code

\* (variant: the table without the unique index on stripeSessionId)
SessionTakenNoIndex(d, sid) == FALSE

\* DiscountCode_stripeSessionId_key
SessionTaken(d, sid) == \E k \in DOMAIN d : d[k].stripeSessionId = sid

\* prisma.discountCode.create: P2002 on either unique index
createDiscount(d, code, sid, email) ==
    IF DiscountCodeTaken(d, code) \/ SessionTaken(d, sid) THEN d
    ELSE Append(d, NewDiscount(d, code, sid, email))

\* findUnique({ where: { stripeSessionId } }) and findUnique({ where: { code } }):
\* the row's position, 0 for null
findBySession(d, sid) ==
    IF \E k \in DOMAIN d : d[k].stripeSessionId = sid
    THEN CHOOSE k \in DOMAIN d : d[k].stripeSessionId = sid ELSE 0

findByCode(d, code) ==
    IF \E k \in DOMAIN d : d[k].code = code
    THEN CHOOSE k \in DOMAIN d : d[k].code = code ELSE 0

\* update({ where: { code }, data: { status: 'USED', usedAt } })
updateDiscount(d, code, usedAt) ==
    [k \in DOMAIN d |->
        IF d[k].code = code THEN [d[k] EXCEPT !.status = "USED", !.usedAt = usedAt]
        ELSE d[k]]

normalizeCode(code) == toUpperCase(trim(code))

(***************************************************************************)
(* Requests.                                                               *)
(***************************************************************************)
Blank == [kind |-> "none", pc |-> "done", code |-> << >>, email |-> << >>,
          name |-> << >>, ip |-> Null, ua |-> Null, row |-> NoRow, stamp |-> NoTime,
          checkedAt |-> NoTime, pi |-> Null, result |-> "", token |-> NoToken,
          afterToken |-> FALSE, afterVoid |-> FALSE, voided |-> {}, quiet |-> FALSE,
          i |-> 0, mintedAt |-> NoTime, minter |-> 0, cause |-> "", fault |-> "",
          sid |-> << >>, found |-> 0, inserts |-> 0, lookups |-> 0, checks |-> 0]

Req == DOMAIN reqs
Finished == {r \in Req : reqs[r].pc = "done"}

\* redeem requests that hold a row they read and have not answered yet
RedeemsHolding(ids) ==
    {r \in Req : reqs[r].kind = "redeem" /\ reqs[r].pc # "done" /\ reqs[r].row.id \in ids}

\* the response is sent: the handler's locals are gone, the request's input and what
\* it read stay on record
Answered(rec) ==
    [rec EXCEPT !.pc = "done", !.name = << >>, !.ip = Null, !.ua = Null, !.stamp = NoTime]

\* history of a redeem request: checkedAt is the clock when its validation ran; and,
\* taken when it reads its row: a redeem of the same code
\* had been answered with a credential; a refund that found no redeem under way had
\* voided the row
TokenGivenFor(code) ==
    \E q \in Finished :
        reqs[q].kind = "redeem" /\ reqs[q].result = "Token" /\ reqs[q].code = code

VoidedQuietly(id) ==
    \E q \in Finished : reqs[q].kind = "refund" /\ reqs[q].quiet /\ id \in reqs[q].voided

Accept(rec) ==
    /\ Len(reqs) < MaxReq
    /\ reqs' = Append(reqs, rec)

(***************************************************************************)
(* Inputs.                                                                 *)
(***************************************************************************)
SeedCode == makeCode([i \in 1..PurchaseCodeLen |-> i - 1])
OtherCode == makeCode([i \in 1..PurchaseCodeLen |-> i + 6])

EmailA == <<"a", "@", "x">>
EmailAUpper == <<"A", "@", "X">>
EmailB == <<"b", "@", "x">>

PaymentIds == {"pi_1", "pi_2"}
Signatures == {"valid", "missing", "invalid"}

RedeemCodes ==
    { SeedCode,
      <<"a", "b", "-", "c", "0", "d", " ", "e", "f", "l">>,
      OtherCode }

\* sanitizeCode and makeCode on the sampled inputs, evaluated once
Sanitized == [raw \in RedeemCodes |-> sanitizeCode(raw)]
PurchaseBytes == RandomBytes(PurchaseCodeLen)
Generated == [bytes \in PurchaseBytes |-> makeCode(bytes)]

\* who calls POST /api/redeem: the body's email and name, the headers, the socket
Callers ==
    { [email |-> << >>, name |-> << >>,
       xff |-> <<"10.0.0.1", "10.9.9.9">>, remote |-> "10.0.0.2", ua |-> "Mozilla"],
      [email |-> EmailAUpper, name |-> <<" ", "J", "o", " ">>,
       xff |-> << >>, remote |-> "10.0.0.2", ua |-> ""],
      [email |-> EmailB, name |-> << >>,
       xff |-> <<"10.0.0.1">>, remote |-> "10.0.0.2", ua |-> "Mozilla"] }

\* tables found at start-up: empty, or holding an unused purchase code with a deadline
\* (expiresAt is written by no handler: rows that carry one were put there by hand)
SeedDeadline == 0
SeedStores ==
    { << >>,
      << NewRow(<< >>, SeedCode, EmailA, "pi_1", SeedDeadline) >> }

\* process.env at start-up: complete, or with one of the secrets missing
Environments ==
    { [JWT_SECRET |-> TRUE, STRIPE |-> TRUE],
      [JWT_SECRET |-> FALSE, STRIPE |-> TRUE],
      [JWT_SECRET |-> TRUE, STRIPE |-> FALSE] }

\* the last call of a generator or of sanitizeCode made on its own (CodecSpec)
NoCalc == [fn |-> "none", input |-> << >>, output |-> << >>, base |-> << >>]

Init ==
    /\ store \in SeedStores
    /\ reqs = << >>
    /\ now = 0
    /\ env \in Environments
    /\ outbox = {}
    /\ calc = NoCalc
    /\ discountCodes = << >>

(***************************************************************************)
(* POST /api/redeem                                                        *)
(***************************************************************************)
RedeemMissingCode ==
    /\ Accept([Blank EXCEPT !.kind = "redeem", !.result = "MissingCode"])
    /\ UNCHANGED <<store, now, env, outbox, calc, discountCodes>>

RedeemFind(raw, caller) ==
    /\ raw # << >>
    /\ LET cleaned == Sanitized[raw]
           row == findUnique(store, cleaned)
       IN  Accept([Blank EXCEPT !.kind = "redeem", !.pc = "check",
                                !.code = cleaned, !.email = caller.email,
                                !.name = caller.name,
                                !.ip = clientIp(caller), !.ua = userAgent(caller),
                                !.row = row,
                                !.afterToken = TokenGivenFor(cleaned),
                                !.afterVoid = VoidedQuietly(row.id)])
    /\ UNCHANGED <<store, now, env, outbox, calc, discountCodes>>

RedeemCheck(r) ==
    /\ reqs[r].kind = "redeem" /\ reqs[r].pc = "check"
    /\ LET verdict == redeemVerdict(reqs[r].row, reqs[r].email, now)
       IN  reqs' = [reqs EXCEPT ![r] =
                IF verdict = "pass"
                THEN [@ EXCEPT !.pc = "update", !.stamp = now, !.checkedAt = now]
                ELSE [Answered(@) EXCEPT !.result = verdict, !.checkedAt = now]]
    /\ UNCHANGED <<store, now, env, outbox, calc, discountCodes>>

\* noted is what the request's history keeps as the time its credential was minted
RedeemUpdateNoting(r, noted) ==
    /\ reqs[r].kind = "redeem" /\ reqs[r].pc = "update"
    /\ store' = update(store, reqs[r].row.id, reqs[r].stamp, reqs[r].ip, reqs[r].ua)
    /\ LET safeName == slice(trim(reqs[r].name), NameCap)
       IN  reqs' = [reqs EXCEPT ![r] =
                IF env.JWT_SECRET
                THEN [Answered(@) EXCEPT !.result = "Token", !.mintedAt = noted,
                        !.token = createDownloadToken(TokenTtl, safeName)]
                ELSE [Answered(@) EXCEPT !.result = "ServerError"]]
    /\ UNCHANGED <<now, env, outbox, calc, discountCodes>>

RedeemUpdate(r) == RedeemUpdateNoting(r, NoTime)

(***************************************************************************)
(* POST /webhooks/stripe                                                   *)
(***************************************************************************)
HookRejected(sig) ==
    /\ webhookGate(sig) # "ok"
    /\ Accept([Blank EXCEPT !.kind = "webhook", !.result = webhookGate(sig)])
    /\ UNCHANGED <<store, now, env, outbox, calc, discountCodes>>

HookOther ==
    /\ webhookGate("valid") = "ok"
    /\ Accept([Blank EXCEPT !.kind = "webhook", !.result = "Received"])
    /\ UNCHANGED <<store, now, env, outbox, calc, discountCodes>>

HookCompleted(pi, email, bytes) ==
    /\ webhookGate("valid") = "ok"
    /\ IF pi = Null
       THEN /\ Accept([Blank EXCEPT !.kind = "completed", !.result = "Received"])
            /\ UNCHANGED store
       ELSE LET code == Generated[bytes]
            IN  /\ store' = create(store, code, email, pi)
                /\ Accept([Blank EXCEPT !.kind = "completed", !.pi = pi, !.email = email,
                                        !.inserts = 1,
                                        !.pc = IF email # << >> THEN "findFirst" ELSE "done",
                                        !.result = IF email # << >> THEN "" ELSE "Received"])
    /\ UNCHANGED <<now, env, outbox, calc, discountCodes>>

HookFindFirst(r) ==
    /\ reqs[r].kind = "completed" /\ reqs[r].pc = "findFirst"
    /\ LET row == findFirst(store, reqs[r].pi)
       IN  reqs' = [reqs EXCEPT ![r] =
                IF row # NoRow
                THEN [@ EXCEPT !.pc = "send", !.row = row, !.lookups = @ + 1]
                ELSE [@ EXCEPT !.pc = "done", !.result = "Received", !.lookups = @ + 1]]
    /\ UNCHANGED <<store, now, env, outbox, calc, discountCodes>>

HookSend(r, delivered) ==
    /\ reqs[r].kind = "completed" /\ reqs[r].pc = "send"
    /\ IF delivered
       THEN /\ outbox' = outbox \cup {[to |-> reqs[r].email, code |-> reqs[r].row.code,
                                        pi |-> reqs[r].pi, by |-> r]}
            /\ reqs' = [reqs EXCEPT ![r] = [@ EXCEPT !.pc = "done", !.result = "Received"]]
            /\ store' = store
       ELSE /\ outbox' = outbox
            /\ reqs' = [reqs EXCEPT ![r] = [@ EXCEPT !.pc = "done", !.result = "HandlerFailed"]]
            /\ store' = webhookCatch(store)
    /\ UNCHANGED <<now, env, calc, discountCodes>>

HookRefund(pi) ==
    /\ webhookGate("valid") = "ok"
    /\ IF pi = Null
       THEN /\ Accept([Blank EXCEPT !.kind = "refund", !.result = "Received"])
            /\ UNCHANGED store
       ELSE /\ store' = updateMany(store, pi)
            /\ Accept([Blank EXCEPT !.kind = "refund", !.pi = pi, !.result = "Received",
                                    !.voided = VoidMatches(store, pi),
                                    !.quiet = (RedeemsHolding(VoidMatches(store, pi)) = {})])
    /\ UNCHANGED <<now, env, outbox, calc, discountCodes>>

Tick ==
    /\ now < MaxTime
    /\ now' = now + 1
    /\ UNCHANGED <<store, reqs, env, outbox, calc, discountCodes>>

Next ==
    \/ RedeemMissingCode
    \/ \E raw \in RedeemCodes, caller \in Callers : RedeemFind(raw, caller)
    \/ \E r \in Req : RedeemCheck(r)
    \/ \E r \in Req : RedeemUpdate(r)
    \/ \E sig \in Signatures : HookRejected(sig)
    \/ HookOther
    \/ \E pi \in PaymentIds \cup {Null}, email \in {<< >>, EmailA},
          bytes \in PurchaseBytes : HookCompleted(pi, email, bytes)
    \/ \E r \in Req : HookFindFirst(r)
    \/ \E r \in Req, delivered \in BOOLEAN : HookSend(r, delivered)
    \/ \E pi \in PaymentIds \cup {Null} : HookRefund(pi)
    \/ Tick

Spec == Init /\ [][Next]_vars


(***************************************************************************)
(* The pass routes: GET /api/pass/download with a credential of            *)
(* POST /api/redeem, and GET /api/pass.  Time moves through ClockMarks.    *)
(***************************************************************************)
ClockMarks == {0, 500, 60200}

\* tokens that no redeem of this run handed out: not a JWT, signed with another key,
\* signed for another purpose, minted long ago
Forged ==
    { [form |-> "garbage", sig |-> "none", payload |-> NoToken],
      [form |-> "jwt", sig |-> "bad",
       payload |-> [typ |-> "pass-download", exp |-> 100000, name |-> << >>]],
      Signed([typ |-> "session", exp |-> 100000, name |-> << >>]),
      Signed([typ |-> "pass-download", exp |-> 0, name |-> << >>]) }

Downloads == {r \in Req : reqs[r].kind = "download"}

\* (variant: a catch block that reports why the token was refused)
downloadCatchByCause(cause) == cause

\* catch (err): 400 'Invalid or expired token', whatever was thrown
downloadCatch(cause) == "InvalidOrExpiredToken"

RedeemUpdateTimed(r) == RedeemUpdateNoting(r, now)

\* up to the point where the pass file is streamed or generation starts; a download
\* is let in when the other requests have used up their number, so that a credential
\* can be presented again
DownloadVerify(p, q, fileExists) ==
    /\ Len(reqs) < MaxReq + 1
    /\ \/ q = 0 /\ p \in Forged
       \/ /\ q \in Finished /\ reqs[q].kind = "redeem" /\ reqs[q].result = "Token"
          /\ p = Signed(reqs[q].token)
    /\ LET cause == verifyDownloadToken(p, now)
           rec == [Blank EXCEPT !.kind = "download", !.token = p.payload, !.minter = q,
                                !.mintedAt = IF q = 0 THEN NoTime ELSE reqs[q].mintedAt,
                                !.checkedAt = now, !.cause = cause]
       IN  reqs' = Append(reqs,
                IF cause # "ok" THEN [rec EXCEPT !.result = downloadCatch(cause)]
                ELSE IF fileExists THEN [rec EXCEPT !.result = "PassBytes"]
                ELSE [rec EXCEPT !.pc = "generate"])
    /\ UNCHANGED <<store, now, env, outbox, calc, discountCodes>>

\* the fallback: getPassLib, ensureCertFilesOnDisk, the token read again for the
\* holder's name, createPassBuffer
DownloadGenerate(r, produced) ==
    /\ reqs[r].kind = "download" /\ reqs[r].pc = "generate"
    /\ LET again == verifyDownloadToken(Signed(reqs[r].token), now)
           fault == IF again # "ok" THEN again
                    ELSE IF ~produced THEN "ProducerFailed" ELSE ""
       IN  reqs' = [reqs EXCEPT ![r] =
                [@ EXCEPT !.pc = "done", !.fault = fault,
                          !.result = IF fault # "" THEN downloadCatch(fault)
                                     ELSE "PassBytes"]]
    /\ UNCHANGED <<store, now, env, outbox, calc, discountCodes>>

\* GET /api/pass
PassGenerate(produced) ==
    /\ Accept([Blank EXCEPT !.kind = "pass",
                            !.result = IF produced THEN "PassBytes" ELSE "PassFailed"])
    /\ UNCHANGED <<store, now, env, outbox, calc, discountCodes>>

Advance(t) ==
    /\ t > now
    /\ now' = t
    /\ UNCHANGED <<store, reqs, env, outbox, calc, discountCodes>>

\* tables found at start-up: empty, or holding an unused purchase code as the
\* webhook writes it
InitDownload ==
    /\ store \in { << >>, << NewRow(<< >>, SeedCode, EmailA, "pi_1", NoTime) >> }
    /\ reqs = << >>
    /\ now = 0
    /\ env \in {e \in Environments : e.STRIPE}
    /\ outbox = {}
    /\ calc = NoCalc
    /\ discountCodes = << >>

NextDownload ==
    \/ \E caller \in {c \in Callers : c.name # << >>} : RedeemFind(SeedCode, caller)
    \/ \E r \in Req : RedeemCheck(r)
    \/ \E r \in Req : RedeemUpdateTimed(r)
    \/ \E p \in Forged \cup {Signed(reqs[q].token) : q \in Finished},
          q \in Req \cup {0}, fileExists \in BOOLEAN : DownloadVerify(p, q, fileExists)
    \/ \E r \in Req, produced \in BOOLEAN : DownloadGenerate(r, produced)
    \/ \E produced \in BOOLEAN : PassGenerate(produced)
    \/ \E bytes \in {b \in PurchaseBytes : Generated[b] # SeedCode} :
          HookCompleted("pi_1", EmailA, bytes)
    \/ \E r \in Req : HookFindFirst(r)
    \/ \E r \in Req, delivered \in BOOLEAN : HookSend(r, delivered)
    \/ \E t \in ClockMarks : Advance(t)

DownloadSpec == InitDownload /\ [][NextDownload]_vars

(***************************************************************************)
(* Code creation: POST /api/demo/checkout next to the webhook's           *)
(* checkout.session.completed.  The demo handler's loop makes one insert   *)
(* attempt per store round trip.                                           *)
(***************************************************************************)
\* (variant: a loop of six attempts)
DemoAttemptsSix == 5 + 1

DemoAttempts == 5

\* the handler up to its first await: body read, code = '', i = 0
DemoCheckout(email) ==
    /\ Accept([Blank EXCEPT !.kind = "demo", !.pc = "create", !.email = email])
    /\ UNCHANGED <<store, now, env, outbox, calc, discountCodes>>

\* after the loop: if (!code) 500, else res.json({ code })
demoAnswer(code) == IF code = << >> THEN "DemoFailed" ELSE "Code"

\* one pass of the loop body: code = makeCode(6), create, then break on success or
\* i++ on P2002; leaving the loop, the handler answers
DemoCreate(r, bytes) ==
    /\ reqs[r].kind = "demo" /\ reqs[r].pc = "create"
    /\ reqs[r].i < DemoAttempts
    /\ LET code == Generated[bytes]
           collides == UniqueViolation(store, code, Null)
           left == collides /\ reqs[r].i + 1 < DemoAttempts
           ans == demoAnswer(code)
       IN  /\ store' = create(store, code, reqs[r].email, Null)
           /\ reqs' = [reqs EXCEPT ![r] =
                  IF left THEN [@ EXCEPT !.i = @ + 1, !.inserts = @ + 1]
                  ELSE [@ EXCEPT !.pc = "done", !.inserts = @ + 1,
                                 !.i = IF collides THEN @ + 1 ELSE @,
                                 !.row = IF collides THEN NoRow ELSE NewRow(store, code, reqs[r].email, Null, NoTime),
                                 !.result = ans,
                                 !.code = IF ans = "Code" THEN code ELSE << >>]]
    /\ UNCHANGED <<now, env, outbox, calc, discountCodes>>

NextCheckout ==
    \/ \E email \in {<< >>, EmailA} : DemoCheckout(email)
    \/ \E r \in Req, bytes \in PurchaseBytes : DemoCreate(r, bytes)
    \/ \E pi \in PaymentIds, email \in {<< >>, EmailA},
          bytes \in PurchaseBytes : HookCompleted(pi, email, bytes)
    \/ \E r \in Req : HookFindFirst(r)
    \/ \E r \in Req, delivered \in BOOLEAN : HookSend(r, delivered)

CheckoutSpec == Init /\ [][NextCheckout]_vars

(***************************************************************************)
(* The discount routes: POST /api/store-code and POST /api/redeem-code.    *)
(***************************************************************************)
MinSessionLen == 6
CandidateChecks == 6

Sid1 == <<"c", "s", "_", "1", "2", "3">>
Sid2 == <<"c", "s", "_", "4", "5", "6">>
SessionIds == {Sid1, <<" ">> \o Sid1 \o <<" ">>, Sid2, <<"c", "s", " ", " ", " ", " ">>, << >>}
TrimmedSession == [raw \in SessionIds |-> trim(raw)]

DiscountBytes == {[i \in 1..DiscountCodeLen |-> (b + i - 1) % 256] : b \in {0, 32, 7}}
GeneratedDiscount == [bytes \in DiscountBytes |-> generateCode(bytes)]

SeedDiscount == generateCode([i \in 1..DiscountCodeLen |-> i - 1])
TypedDiscounts ==
    {SeedDiscount, <<" ">> \o toLowerCase(SeedDiscount) \o <<" ">>,
     generateCode([i \in 1..DiscountCodeLen |-> i + 15])}
NormalizedDiscount == [raw \in TypedDiscounts |-> normalizeCode(raw)]

\* store-code up to its first lookup
StoreFind(raw, email) ==
    /\ IF Len(TrimmedSession[raw]) < MinSessionLen
       THEN Accept([Blank EXCEPT !.kind = "store", !.result = "MissingSession"])
       ELSE LET sid == TrimmedSession[raw]
                existing == findBySession(discountCodes, sid)
                rec == [Blank EXCEPT !.kind = "store", !.sid = sid,
                                     !.email = toLowerCase(trim(email))]
            IN  Accept(IF existing # 0
                       THEN [rec EXCEPT !.result = "Success", !.found = existing,
                                        !.code = discountCodes[existing].code]
                       ELSE [rec EXCEPT !.pc = "candidate"])
    /\ UNCHANGED <<store, now, env, outbox, calc, discountCodes>>

\* one pass of the loop: candidate = generateCode(12), findUnique by code
StoreCandidate(r, bytes) ==
    /\ reqs[r].kind = "store" /\ reqs[r].pc = "candidate"
    /\ reqs[r].i < CandidateChecks
    /\ LET candidate == GeneratedDiscount[bytes]
           collision == findByCode(discountCodes, candidate) # 0
       IN  reqs' = [reqs EXCEPT ![r] =
                IF ~collision
                THEN [@ EXCEPT !.pc = "create", !.code = candidate, !.checks = @ + 1]
                ELSE IF reqs[r].i + 1 < CandidateChecks
                THEN [@ EXCEPT !.i = @ + 1, !.checks = @ + 1]
                ELSE [@ EXCEPT !.pc = "done", !.i = @ + 1, !.checks = @ + 1,
                               !.result = "FailedToCreate"]]
    /\ UNCHANGED <<store, now, env, outbox, calc, discountCodes>>

StoreCreate(r) ==
    /\ reqs[r].kind = "store" /\ reqs[r].pc = "create"
    /\ LET after == createDiscount(discountCodes, reqs[r].code, reqs[r].sid, reqs[r].email)
       IN  /\ discountCodes' = after
           /\ reqs' = [reqs EXCEPT ![r] =
                  IF after # discountCodes
                  THEN [@ EXCEPT !.pc = "done", !.result = "Success", !.found = Len(after),
                                 !.inserts = @ + 1]
                  ELSE [@ EXCEPT !.pc = "fallback", !.code = << >>, !.inserts = @ + 1]]
    /\ UNCHANGED <<store, now, env, outbox, calc>>

\* after P2002: one more findUnique by stripeSessionId
StoreFallback(r) ==
    /\ reqs[r].kind = "store" /\ reqs[r].pc = "fallback"
    /\ LET row == findBySession(discountCodes, reqs[r].sid)
       IN  reqs' = [reqs EXCEPT ![r] =
                IF row # 0
                THEN [@ EXCEPT !.pc = "done", !.result = "Success", !.found = row,
                               !.code = discountCodes[row].code, !.lookups = @ + 1]
                ELSE [@ EXCEPT !.pc = "done", !.result = "FailedToStore", !.lookups = @ + 1]]
    /\ UNCHANGED <<store, now, env, outbox, calc, discountCodes>>

discountVerdict(d, row) ==
    IF row = 0 THEN "InvalidCode"
    ELSE IF d[row].status # "UNUSED" THEN "CodeAlreadyUsed"
    ELSE "pass"

\* redeem-code up to its lookup and the checks on the row
RedeemCodeFind(raw) ==
    /\ LET normalized == NormalizedDiscount[raw]
           row == findByCode(discountCodes, normalized)
           verdict == discountVerdict(discountCodes, row)
           rec == [Blank EXCEPT !.kind = "redeemCode", !.code = normalized, !.found = row]
       IN  Accept(IF verdict = "pass" THEN [rec EXCEPT !.pc = "update"]
                  ELSE [rec EXCEPT !.result = verdict])
    /\ UNCHANGED <<store, now, env, outbox, calc, discountCodes>>

\* the update, then the pass file is sent if it is on disk
RedeemCodeUpdate(r, fileExists) ==
    /\ reqs[r].kind = "redeemCode" /\ reqs[r].pc = "update"
    /\ discountCodes' = updateDiscount(discountCodes, reqs[r].code, now)
    /\ reqs' = [reqs EXCEPT ![r] =
           [@ EXCEPT !.pc = "done",
                     !.result = IF fileExists THEN "PassFile" ELSE "PassFileMissing"]]
    /\ UNCHANGED <<store, now, env, outbox, calc>>

InitDiscount ==
    /\ store = << >>
    /\ reqs = << >>
    /\ now = 0
    /\ env = [JWT_SECRET |-> TRUE, STRIPE |-> TRUE]
    /\ outbox = {}
    /\ calc = NoCalc
    /\ discountCodes \in {<< >>, <<NewDiscount(<< >>, SeedDiscount, Sid1, << >>)>>}

NextDiscount ==
    \/ \E raw \in SessionIds : StoreFind(raw, EmailAUpper)
    \/ \E r \in Req, bytes \in DiscountBytes : StoreCandidate(r, bytes)
    \/ \E r \in Req : StoreCreate(r)
    \/ \E r \in Req : StoreFallback(r)
    \/ \E raw \in TypedDiscounts : RedeemCodeFind(raw)
    \/ \E r \in Req, fileExists \in BOOLEAN : RedeemCodeUpdate(r, fileExists)

DiscountSpec == InitDiscount /\ [][NextDiscount]_vars

(***************************************************************************)
(* The creation paths together: the payment-completed event, the demo      *)
(* checkout and store-code.  A handler waiting for the store goes on when  *)
(* the store has answered, so each request's next step is weakly fair.     *)
(***************************************************************************)
\* the tables hold one purchase code and one discount code of earlier checkouts
InitCreation ==
    /\ store = << NewRow(<< >>, SeedCode, EmailA, "pi_1", NoTime) >>
    /\ reqs = << >>
    /\ now = 0
    /\ env = [JWT_SECRET |-> TRUE, STRIPE |-> TRUE]
    /\ outbox = {}
    /\ calc = NoCalc
    /\ discountCodes = <<NewDiscount(<< >>, SeedDiscount, Sid1, << >>)>>

Continue(r) ==
    /\ r \in Req
    /\ \/ HookFindFirst(r)
       \/ \E delivered \in BOOLEAN : HookSend(r, delivered)
       \/ \E bytes \in PurchaseBytes : DemoCreate(r, bytes)
       \/ \E bytes \in DiscountBytes : StoreCandidate(r, bytes)
       \/ StoreCreate(r)
       \/ StoreFallback(r)

NextCreation ==
    \/ \E pi \in PaymentIds, bytes \in PurchaseBytes : HookCompleted(pi, EmailA, bytes)
    \/ DemoCheckout(<< >>)
    \/ \E raw \in {Sid1, Sid2} : StoreFind(raw, EmailAUpper)
    \/ \E r \in Req : Continue(r)

CreationSpec ==
    InitCreation /\ [][NextCreation]_vars /\ \A r \in 1..MaxReq : WF_vars(Continue(r))

(***************************************************************************)
(* The generators and the normalisation on their own: each step is one     *)
(* call, on bytes or on a string drawn from the samples below.             *)
(***************************************************************************)
ByteRuns(len) == {[i \in 1..len |-> (b + i - 1) % 256] : b \in 0..255}
PurchaseRuns == ByteRuns(PurchaseCodeLen)
DiscountRuns == ByteRuns(DiscountCodeLen)

\* what a buyer may type for a code: other case, separators, look-alike characters
Inserted(code, x) ==
    <<x>> \o SubSeq(code, 1, 2) \o <<x, x>> \o SubSeq(code, 3, Len(code)) \o <<x>>

Decorations(code) ==
    {toLowerCase(code)}
        \cup {Inserted(code, x) : x \in {" ", "-", "_", ".", "O", "0", "I", "1", "L"}}
        \cup {toLowerCase(Inserted(code, x)) : x \in {"O", "I", "L", "-"}}

TypedBases ==
    {makeCode([i \in 1..PurchaseCodeLen |-> (b + i - 1) % 256]) : b \in {0, 7, 24, 250}}
TypedCodes ==
    UNION {{[base |-> c, typed |-> d] : d \in Decorations(c)} : c \in TypedBases}
RawStrings ==
    { << >>, <<"0", "O", "1", "I", "L">>, <<"a", "-", "b">>, <<"l", "o", "i", "z", "9">>,
      <<" ", "Q", "q", "!", "2">> }

InitCodec ==
    /\ store = << >>
    /\ reqs = << >>
    /\ now = 0
    /\ env = [JWT_SECRET |-> TRUE, STRIPE |-> TRUE]
    /\ outbox = {}
    /\ calc = NoCalc
    /\ discountCodes = << >>

CallMakeCode(bytes) ==
    /\ calc' = [fn |-> "makeCode", input |-> bytes, output |-> makeCode(bytes),
                base |-> << >>]
    /\ UNCHANGED <<store, reqs, now, env, outbox, discountCodes>>

CallGenerateCode(bytes) ==
    /\ calc' = [fn |-> "generateCode", input |-> bytes, output |-> generateCode(bytes),
                base |-> << >>]
    /\ UNCHANGED <<store, reqs, now, env, outbox, discountCodes>>

CallSanitizeTyped(t) ==
    /\ calc' = [fn |-> "sanitizeCode", input |-> t.typed, output |-> sanitizeCode(t.typed),
                base |-> t.base]
    /\ UNCHANGED <<store, reqs, now, env, outbox, discountCodes>>

CallSanitizeRaw(input) ==
    /\ calc' = [fn |-> "sanitizeRaw", input |-> input, output |-> sanitizeCode(input),
                base |-> << >>]
    /\ UNCHANGED <<store, reqs, now, env, outbox, discountCodes>>

NextCodec ==
    \/ \E bytes \in PurchaseRuns : CallMakeCode(bytes)
    \/ \E bytes \in DiscountRuns : CallGenerateCode(bytes)
    \/ \E t \in TypedCodes : CallSanitizeTyped(t)
    \/ \E input \in RawStrings : CallSanitizeRaw(input)

CodecSpec == InitCodec /\ [][NextCodec]_vars

(***************************************************************************)
(* Properties.                                                             *)
(***************************************************************************)
Redeems == {r \in Req : reqs[r].kind = "redeem"}
Refunds == {r \in Req : reqs[r].kind = "refund"}
Completions == {r \in Req : reqs[r].kind = "completed"}
RowsOfPayment(pi) == {i \in DOMAIN store : store[i].stripePaymentId = pi}

\* C1: two redeem requests for one code never both return a credential, however
\* their steps interleave.
C1_ExactlyOnceConsumption ==
    \A r1, r2 \in Redeems \cap Finished :
        (r1 # r2 /\ reqs[r1].row.id # 0 /\ reqs[r1].row.id = reqs[r2].row.id)
            => ~(reqs[r1].result = "Token" /\ reqs[r2].result = "Token")

\* C2: a row's status changes only out of UNUSED (to USED or to VOID), so at most
\* once; USED and VOID are terminal.
C2_StatusOnlyLeavesUnused ==
    [][\A i \in DOMAIN store :
          store'[i].status # store[i].status => store[i].status = "UNUSED"]_vars

\* C3: at most one row per payment reference, whatever the deliveries of the
\* payment-completed event, and the code and the payment reference of a row never
\* change once it is inserted.
C3_OneCodePerPayment ==
    /\ [](\A pi \in PaymentIds : Cardinality(RowsOfPayment(pi)) <= 1)
    /\ [][\A i \in DOMAIN store :
              /\ store'[i].code = store[i].code
              /\ store'[i].stripePaymentId = store[i].stripePaymentId]_vars

C3_Witness ==
    \E r1, r2 \in Completions \cap Finished :
        /\ r1 # r2
        /\ reqs[r1].pi # Null /\ reqs[r1].pi = reqs[r2].pi
        /\ Cardinality(RowsOfPayment(reqs[r1].pi)) = 1
        /\ Len(store) = 1

\* C4: once a payment-completed event with a payment reference has been handled
\* successfully, a row bound to that payment reference exists (a collision on the
\* code value is retried with a new candidate).
C4_HandledPaymentHasCode ==
    \A r \in Completions \cap Finished :
        (reqs[r].pi # Null /\ reqs[r].result = "Received")
            => RowsOfPayment(reqs[r].pi) # {}

\* C5: a redeem request that reads its row after a redeem of the same code was
\* answered with a credential fails with AlreadyConsumedOrVoid and gets no credential.
C5_RedeemAfterSuccessFails ==
    \A r \in Redeems \cap Finished :
        reqs[r].afterToken
            => reqs[r].result = "AlreadyConsumedOrVoid" /\ reqs[r].token = NoToken

C5_Witness ==
    \E r \in Redeems \cap Finished :
        reqs[r].afterToken /\ reqs[r].email = EmailB

\* C6: a refund processed while the code is UNUSED and no redeem of it is under way
\* leaves the code VOID for good, and every redeem that reads the row afterwards
\* fails with AlreadyConsumedOrVoid.
C6_RefundBeforeRedeemVoids ==
    /\ \A q \in Refunds :
          reqs[q].quiet => \A i \in reqs[q].voided : store[i].status = "VOID"
    /\ \A r \in Redeems \cap Finished :
          reqs[r].afterVoid
              => reqs[r].result = "AlreadyConsumedOrVoid" /\ reqs[r].token = NoToken

C6_Witness ==
    \E r \in Redeems \cap Finished, q \in Refunds :
        reqs[r].afterVoid /\ reqs[q].quiet /\ reqs[r].row.id \in reqs[q].voided

\* C7: a refund for a payment reference leaves every USED row of that payment
\* unchanged, in all its columns.
C7_RefundLeavesUsedRow ==
    [][\A pi \in PaymentIds :
          HookRefund(pi) =>
              \A i \in DOMAIN store :
                  (store[i].stripePaymentId = pi /\ store[i].status = "USED")
                      => store'[i] = store[i]]_vars

C7_Witness ==
    \E q \in Refunds :
        /\ reqs[q].voided = {}
        /\ \E i \in RowsOfPayment(reqs[q].pi) :
              store[i].status = "USED" /\ store[i].usedAt # NoTime

\* C8: when the void update of a refund commits before the update of a concurrent
\* redeem, the code ends VOID and that redeem returns no credential.
C8_FirstUpdateDecides ==
    \A q \in Refunds : \A i \in reqs[q].voided :
        /\ store[i].status = "VOID"
        /\ ~\E r \in Redeems : reqs[r].row.id = i /\ reqs[r].result = "Token"

\* C9: a row with a deadline never becomes USED at a time later than the deadline.
C9_NeverUsedAfterDeadline ==
    [][\A i \in DOMAIN store :
          (store[i].status # "USED" /\ store'[i].status = "USED"
              /\ store[i].expiresAt # NoTime)
              => ~(now > store[i].expiresAt)]_vars

\* C10: for a row read UNUSED and not expired when validated, the redeem fails with
\* EmailMismatch exactly when both emails are present and differ ignoring case;
\* otherwise, the signing key being configured, it returns a credential.
SameIgnoringCase(a, b) ==
    /\ Len(a) = Len(b)
    /\ \A i \in DOMAIN a :
          \/ a[i] = b[i]
          \/ \E k \in DOMAIN Lower : {a[i], b[i]} = {Lower[k], Upper[k]}

C10_EmailPolicy ==
    \A r \in Redeems \cap Finished :
        LET row == reqs[r].row
            differ == /\ reqs[r].email # << >>
                      /\ row.customerEmail # << >>
                      /\ ~SameIgnoringCase(reqs[r].email, row.customerEmail)
        IN  (/\ row.id # 0
             /\ row.status = "UNUSED"
             /\ reqs[r].checkedAt # NoTime
             /\ ~(row.expiresAt # NoTime /\ row.expiresAt < reqs[r].checkedAt))
                => /\ reqs[r].result = "EmailMismatch" <=> differ
                   /\ (~differ /\ env.JWT_SECRET) => reqs[r].result = "Token"

C10_Witness ==
    /\ \E r \in Redeems \cap Finished :
          /\ reqs[r].email = EmailAUpper /\ reqs[r].row.customerEmail = EmailA
          /\ reqs[r].result = "Token"
    /\ \E r \in Redeems \cap Finished :
          /\ reqs[r].email = EmailB /\ reqs[r].row.customerEmail = EmailA
          /\ reqs[r].result = "EmailMismatch"

\* C11: a redeem reports the first failing check in the order NotFound,
\* AlreadyConsumedOrVoid, Expired, EmailMismatch, and returns a credential only
\* when none fails.
C11_FirstFailingCheck ==
    \A r \in Redeems \cap Finished :
        LET row == reqs[r].row
            missing == row.id = 0
            consumed == row.status \in {"USED", "VOID"}
            expired == row.expiresAt # NoTime /\ reqs[r].checkedAt > row.expiresAt
            differ == /\ reqs[r].email # << >>
                      /\ row.customerEmail # << >>
                      /\ ~SameIgnoringCase(reqs[r].email, row.customerEmail)
        IN  reqs[r].checkedAt # NoTime
                => /\ reqs[r].result = "NotFound" <=> missing
                   /\ reqs[r].result = "AlreadyConsumedOrVoid" <=> (~missing /\ consumed)
                   /\ reqs[r].result = "Expired" <=> (~missing /\ ~consumed /\ expired)
                   /\ reqs[r].result = "EmailMismatch"
                          <=> (~missing /\ ~consumed /\ ~expired /\ differ)
                   /\ reqs[r].result = "Token"
                          => (~missing /\ ~consumed /\ ~expired /\ ~differ)

C11_Witness ==
    \E r \in Redeems \cap Finished :
        /\ reqs[r].row.status = "VOID"
        /\ reqs[r].row.expiresAt # NoTime /\ reqs[r].checkedAt > reqs[r].row.expiresAt
        /\ reqs[r].email = EmailB /\ reqs[r].row.customerEmail = EmailA
        /\ reqs[r].result = "AlreadyConsumedOrVoid"

\* C14: every email sent while handling a payment-completed event carries the code
\* of the row bound to that payment reference, so no two emails of one payment carry
\* different codes.
C14_EmailsCarryStoredCode ==
    /\ \A m \in outbox : \E i \in RowsOfPayment(m.pi) : store[i].code = m.code
    /\ \A m1, m2 \in outbox : m1.pi = m2.pi => m1.code = m2.code

C14_Witness ==
    \E m1, m2 \in outbox :
        m1.by # m2.by /\ m1.pi = m2.pi /\ m1.pi = "pi_2" /\ Len(store) = 2

\* C12: in every reachable state no two rows of the table share a code, whatever
\* payment-completed events and demo checkouts created them.
C12_CodesUnique ==
    \A a, b \in DOMAIN store : store[a].code = store[b].code => a = b

C12_Witness ==
    /\ \E a, b \in DOMAIN store :
          /\ a # b
          /\ store[a].stripePaymentId = Null /\ store[b].stripePaymentId # Null
    /\ \E r \in Finished : reqs[r].kind = "demo" /\ reqs[r].i > 0 /\ reqs[r].row # NoRow

\* C13: the demo checkout makes at most 5 insert attempts and returns a code only
\* if this request inserted a row with that code; when all attempts hit a uniqueness
\* violation it answers with an error and no code.
C13_DemoCodeOnlyIfInserted ==
    \A r \in Req :
        reqs[r].kind = "demo"
            => /\ reqs[r].i <= DemoAttempts
               /\ reqs[r].pc = "done" /\ reqs[r].result = "Code"
                    => /\ reqs[r].row # NoRow
                       /\ reqs[r].row.code = reqs[r].code
                       /\ reqs[r].row.id \in DOMAIN store
                       /\ store[reqs[r].row.id].code = reqs[r].code
               /\ reqs[r].pc = "done" /\ reqs[r].i = DemoAttempts
                    => reqs[r].result = "DemoFailed" /\ reqs[r].code = << >>

\* downloads that presented a credential handed out by a redeem of this run
Presentations == {d \in Downloads : reqs[d].minter # 0}

\* a step of GET /api/pass/download: a download comes in, or one goes on
DownloadStep ==
    \/ Len(reqs') > Len(reqs) /\ reqs'[Len(reqs')].kind = "download"
    \/ \E r \in Downloads : reqs'[r] # reqs[r]

\* C15 as stated: a credential minted with time-to-live t at time T (milliseconds of
\* the clock) is accepted on every presentation before T+t and refused with
\* InvalidOrExpiredToken on every presentation after T+t.
C15_AcceptedUntilTtlElapsed ==
    \A d \in Presentations :
        LET deadline == reqs[d].mintedAt + TokenTtl * MsPerSecond
        IN  /\ reqs[d].checkedAt < deadline => reqs[d].cause = "ok"
            /\ reqs[d].checkedAt > deadline
                 => reqs[d].cause # "ok" /\ reqs[d].result = "InvalidOrExpiredToken"

\* C15 amended: with time counted in whole seconds, a credential minted with
\* time-to-live t in second S is accepted on every presentation in a second before
\* S+t, however often it is presented, and refused with InvalidOrExpiredToken on every
\* presentation from second S+t on; no step of a download changes the table.
C15_AcceptedUntilExpirySecond ==
    /\ [](\A d \in Presentations :
            LET expiry == (reqs[d].mintedAt \div MsPerSecond) + TokenTtl
                second == reqs[d].checkedAt \div MsPerSecond
            IN  /\ second < expiry => reqs[d].cause = "ok"
                /\ second >= expiry
                     => reqs[d].cause = "Expired" /\ reqs[d].result = "InvalidOrExpiredToken")
    /\ [][DownloadStep => store' = store]_vars

C15_Witness ==
    \E d, e \in Presentations :
        /\ d < e /\ reqs[d].minter = reqs[e].minter
        /\ reqs[d].mintedAt > 0
        /\ reqs[d].cause = "ok" /\ reqs[d].result = "PassBytes"
        /\ reqs[e].cause = "Expired" /\ reqs[e].result = "InvalidOrExpiredToken"

\* C16: every download whose token is refused gets the same answer, 400 'Invalid or
\* expired token', whatever the reason: two refused downloads cannot be told apart by
\* their responses.
Refused(d) == reqs[d].cause # "ok" \/ reqs[d].fault = "Expired"

C16_RejectionsIndistinguishable ==
    \A d, e \in Downloads :
        Refused(d) /\ Refused(e)
            => /\ reqs[d].pc = "done" /\ reqs[e].pc = "done"
               /\ reqs[d].result = reqs[e].result
               /\ reqs[d].result = "InvalidOrExpiredToken"

C16_Witness ==
    \E d, e \in Downloads :
        /\ reqs[d].cause = "Expired"
        /\ reqs[e].cause \in {"BadSignature", "WrongType", "Malformed"}

\* C17: pass bytes are produced only in a request in which credential verification
\* has succeeded; no route produces them for a request without a valid credential.
C17_BytesOnlyAfterVerification ==
    \A r \in Req :
        reqs[r].result = "PassBytes" => reqs[r].kind = "download" /\ reqs[r].cause = "ok"

\* the row a download's credential was paid with
Consumed(d) == reqs[reqs[d].minter].row.id

\* C20: a collaborator's failure undoes nothing.  The step in which email delivery
\* fails leaves the table as it is, the payment's row still there with its code, and
\* every email sent for that payment, before or after, carries that code; the step in
\* which pass generation fails leaves the table as it is, the consumed row USED.
C20_FailuresUndoNothing ==
    /\ [][\A r \in Req :
            /\ reqs[r].pc = "send" /\ reqs'[r].result = "HandlerFailed"
                 => /\ store' = store
                    /\ \E k \in DOMAIN store' :
                          /\ store'[k].stripePaymentId = reqs[r].pi
                          /\ store'[k].code = reqs[r].row.code
                          /\ store'[k].status = store[k].status
            /\ reqs[r].pc = "generate" /\ reqs'[r].fault = "ProducerFailed"
                 => /\ store' = store
                    /\ store'[Consumed(r)].status = "USED"]_vars
    /\ [](\A r \in Finished :
            /\ reqs[r].result = "HandlerFailed"
                 => /\ \E k \in DOMAIN store :
                          /\ store[k].stripePaymentId = reqs[r].pi
                          /\ store[k].code = reqs[r].row.code
                    /\ \A m \in outbox : m.pi = reqs[r].pi => m.code = reqs[r].row.code
            /\ reqs[r].fault = "ProducerFailed"
                 => store[Consumed(r)].status = "USED")

C20_Witness ==
    \E r \in Finished :
        /\ reqs[r].kind = "completed" /\ reqs[r].result = "HandlerFailed"
        /\ reqs[r].row.status = "UNUSED"
        /\ \E m \in outbox : m.pi = reqs[r].pi /\ m.by > r

\* C18: every code a generator returns has the requested length and holds none of
\* the characters 0, O, 1, I, L (makeCode and generateCode alike).
C18_GeneratedCodesUnambiguous ==
    calc.fn \in {"makeCode", "generateCode"}
        => /\ Len(calc.output) = Len(calc.input)
           /\ Range(calc.output) \cap {"0", "O", "1", "I", "L"} = {}

\* C19: sanitizeCode is idempotent, leaves the purchase codes of makeCode unchanged,
\* and maps what a buyer types for a stored code (other case, separators, look-alike
\* characters put in) back to that code, so the lookup finds the code's row.
C19_SanitizeAgreesWithGenerator ==
    LET table == << NewRow(<< >>, calc.base, << >>, Null, NoTime) >>
    IN  /\ calc.fn \in {"sanitizeCode", "sanitizeRaw"}
            => sanitizeCode(calc.output) = calc.output
        /\ calc.fn = "makeCode" => sanitizeCode(calc.output) = calc.output
        /\ calc.fn = "sanitizeCode"
            => /\ calc.output = calc.base
               /\ findUnique(table, calc.output) = table[1]

C19_Witness ==
    /\ calc.fn = "sanitizeCode"
    /\ calc.input # calc.base
    /\ "l" \in Range(calc.input)
    /\ calc.output = calc.base

\* the request that arrives in this step, if one does
Arrives(kinds) == Len(reqs') = Len(reqs) + 1 /\ reqs'[Len(reqs')].kind \in kinds

\* C21: a refund event whose payment reference matches no UNUSED row (no row, or only
\* USED or VOID rows), and a refund event without a payment reference, leaves every
\* row unchanged and is answered as received.
C21_UnmatchedRefundIsNoOp ==
    [][\A pi \in PaymentIds \cup {Null} :
          (HookRefund(pi)
             /\ ~\E i \in DOMAIN store :
                    store[i].stripePaymentId = pi /\ store[i].status = "UNUSED")
              => store' = store /\ reqs'[Len(reqs')].result = "Received"]_vars

C21_Witness ==
    \E q, v \in Refunds :
        /\ v < q /\ reqs[v].pi = reqs[q].pi /\ reqs[v].voided # {}
        /\ reqs[q].voided = {} /\ reqs[q].result = "Received"
        /\ \A i \in RowsOfPayment(reqs[q].pi) : store[i].status = "VOID"

\* C22: in every reachable state a row has usedAt, redeemAuditIp and redeemAuditUa
\* set exactly when its status is USED, under every interleaving of redeem and refund.
C22_AuditFieldsIffUsed ==
    \A i \in DOMAIN store :
        /\ store[i].usedAt # NoTime <=> store[i].status = "USED"
        /\ store[i].redeemAuditIp # Null <=> store[i].status = "USED"
        /\ store[i].redeemAuditUa # Null <=> store[i].status = "USED"

C22_Witness ==
    \E q \in Refunds, r \in Redeems \cap Finished :
        /\ reqs[r].row.id \in reqs[q].voided
        /\ store[reqs[r].row.id].status = "USED"
        /\ store[reqs[r].row.id].usedAt # NoTime

\* C23: a redeem that ends in NotFound, AlreadyConsumedOrVoid, Expired or
\* EmailMismatch changes no field of any row and mints no credential: neither its
\* lookup nor the step that answers it writes, it carries no token, and a redeem that
\* read a row missing or not UNUSED is among them.
RedeemFailures == {"NotFound", "AlreadyConsumedOrVoid", "Expired", "EmailMismatch"}

C23_FailedRedeemChangesNothing ==
    /\ [][/\ Arrives({"redeem"}) => store' = store
          /\ \A r \in Redeems :
                (reqs[r].pc # "done" /\ reqs'[r].result \in RedeemFailures)
                    => store' = store /\ reqs'[r].token = NoToken]_vars
    /\ [](\A r \in Redeems \cap Finished :
            /\ reqs[r].result \in RedeemFailures => reqs[r].token = NoToken
            /\ (reqs[r].code # << >> /\ (reqs[r].row = NoRow \/ reqs[r].row.status # "UNUSED"))
                 => reqs[r].result \in RedeemFailures)

C23_Witness ==
    \E q \in Redeems \cap Finished :
        /\ reqs[q].result = "AlreadyConsumedOrVoid" /\ reqs[q].token = NoToken
        /\ reqs[q].row.status = "USED" /\ store[reqs[q].row.id] = reqs[q].row

\* C24: whenever a redeem moves a row to USED, that same request returns a download
\* credential; without a signing key the request fails before the status is changed.
C24_ConsumedImpliesCredential ==
    [][\A r \in Redeems :
          (reqs[r].pc = "update" /\ reqs'[r].pc = "done"
             /\ store'[reqs[r].row.id].status = "USED")
              => reqs'[r].result = "Token" /\ reqs'[r].token # NoToken]_vars

\* C25: a webhook request that is not verified (signature missing or invalid, or the
\* webhook secret or the processor key not configured) creates no row, voids none and
\* sends no email.
C25_UnverifiedWebhookChangesNothing ==
    /\ [][/\ (\E sig \in Signatures \ {"valid"} : HookRejected(sig))
                => store' = store /\ outbox' = outbox
          /\ (~env.STRIPE /\ Arrives({"webhook", "completed", "refund"}))
                => store' = store /\ outbox' = outbox]_vars
    /\ [](~env.STRIPE => outbox = {} /\ Completions = {} /\ Refunds = {})

C25_Witness ==
    \E a, b \in Req :
        /\ reqs[a].kind = "webhook" /\ reqs[a].result = "MissingSignature"
        /\ reqs[b].kind = "webhook" /\ reqs[b].result = "BadSignature"

Stores == {r \in Req : reqs[r].kind = "store"}
CodeRedeems == {r \in Req : reqs[r].kind = "redeemCode"}

\* C28: any number of store-code requests with the same stripeSessionId, sequential
\* or interleaved, leave at most one row for that session, and every request that
\* reports success returns the code of that row.
C28_StoreCodeIdempotent ==
    /\ \A a, b \in DOMAIN discountCodes :
          discountCodes[a].stripeSessionId = discountCodes[b].stripeSessionId => a = b
    /\ \A r \in Stores \cap Finished :
          reqs[r].result = "Success"
              => \E k \in DOMAIN discountCodes :
                    /\ discountCodes[k].stripeSessionId = reqs[r].sid
                    /\ discountCodes[k].code = reqs[r].code

C28_Witness ==
    \E a, b \in Stores \cap Finished :
        /\ a # b /\ reqs[a].sid = reqs[b].sid
        /\ reqs[a].result = "Success" /\ reqs[b].result = "Success"
        /\ reqs[a].inserts = 1 /\ reqs[b].inserts = 1 /\ reqs[b].lookups = 1

\* C29: among the redeem-code requests for one code at most one is sent the pass
\* file and all others fail with 'Code already used'; and a code is marked USED only
\* by a request that is sent the pass file.
C29_PassFileAtMostOnce ==
    /\ \A a, b \in CodeRedeems \cap Finished :
          (a # b /\ reqs[a].code = reqs[b].code /\ reqs[a].found # 0)
              => /\ ~(reqs[a].result = "PassFile" /\ reqs[b].result = "PassFile")
                 /\ reqs[a].result = "PassFile" => reqs[b].result = "CodeAlreadyUsed"
    /\ \A r \in CodeRedeems \cap Finished :
          reqs[r].result = "PassFileMissing" => discountCodes[reqs[r].found].status # "USED"

\* C26: every creation path ends after a bounded number of store operations: a
\* payment-completed event makes one insert attempt and at most one lookup by payment
\* reference, the demo checkout at most 5 insert attempts, store-code at most 6
\* candidate checks, one insert and one fallback lookup; and each request is answered.
C26_CreationBounded ==
    /\ [](\A r \in Req :
            /\ reqs[r].kind = "completed" => reqs[r].inserts <= 1 /\ reqs[r].lookups <= 1
            /\ reqs[r].kind = "demo" => reqs[r].inserts <= 5
            /\ reqs[r].kind = "store"
                 => reqs[r].checks <= 6 /\ reqs[r].inserts <= 1 /\ reqs[r].lookups <= 1)
    /\ \A r \in 1..MaxReq : (r \in Req) ~> (r \in Req /\ reqs[r].pc = "done")

C26_Witness ==
    \E a, b \in Finished :
        /\ reqs[a].kind = "demo" /\ reqs[a].inserts = 5
        /\ reqs[b].kind = "store" /\ reqs[b].checks = 6

\* C27: with uniformly random bytes makeCode draws each character with the same
\* probability: each of the 30 characters is the image of the same number of the 256
\* byte values.
ByteShare(c) == Cardinality({b \in 0..255 : makeCode(<<b>>) = <<c>>})

C27_UniformDraw ==
    calc.fn = "makeCode"
        => \A c \in Range(ALPHABET) : ByteShare(c) = ByteShare(calc.output[1])

====
